---- MODULE Spec2Model ----
(***************************************************************************)
(* Reed-Solomon encoder over GF(256) (primitive polynomial 0x11D):         *)
(* the lookup tables and field primitives of src/gf/mod.rs, the Polynom   *)
(* buffer of src/gf/poly.rs and the streaming encoder of src/encoder.rs.   *)
(* Rust slices are 0-based, TLA+ sequences 1-based: the element the        *)
(* source calls x[i] is x[i + 1] here.                                     *)
(***************************************************************************)
EXTENDS Integers, Sequences, FiniteSets, TLC

(* ------------------------------------------------------------------ *)
(* GF(256) tables, src/gf/mod.rs                                      *)
(* ------------------------------------------------------------------ *)

EXP_SIZE == 512

LOG_SIZE == 256

EXP == <<
    1, 2, 4, 8, 16, 32, 64, 128, 29, 58, 116, 232, 205, 135, 19, 38,
    76, 152, 45, 90, 180, 117, 234, 201, 143, 3, 6, 12, 24, 48, 96, 192,
    157, 39, 78, 156, 37, 74, 148, 53, 106, 212, 181, 119, 238, 193, 159, 35,
    70, 140, 5, 10, 20, 40, 80, 160, 93, 186, 105, 210, 185, 111, 222, 161,
    95, 190, 97, 194, 153, 47, 94, 188, 101, 202, 137, 15, 30, 60, 120, 240,
    253, 231, 211, 187, 107, 214, 177, 127, 254, 225, 223, 163, 91, 182, 113, 226,
    217, 175, 67, 134, 17, 34, 68, 136, 13, 26, 52, 104, 208, 189, 103, 206,
    129, 31, 62, 124, 248, 237, 199, 147, 59, 118, 236, 197, 151, 51, 102, 204,
    133, 23, 46, 92, 184, 109, 218, 169, 79, 158, 33, 66, 132, 21, 42, 84,
    168, 77, 154, 41, 82, 164, 85, 170, 73, 146, 57, 114, 228, 213, 183, 115,
    230, 209, 191, 99, 198, 145, 63, 126, 252, 229, 215, 179, 123, 246, 241, 255,
    227, 219, 171, 75, 150, 49, 98, 196, 149, 55, 110, 220, 165, 87, 174, 65,
    130, 25, 50, 100, 200, 141, 7, 14, 28, 56, 112, 224, 221, 167, 83, 166,
    81, 162, 89, 178, 121, 242, 249, 239, 195, 155, 43, 86, 172, 69, 138, 9,
    18, 36, 72, 144, 61, 122, 244, 245, 247, 243, 251, 235, 203, 139, 11, 22,
    44, 88, 176, 125, 250, 233, 207, 131, 27, 54, 108, 216, 173, 71, 142, 1,
    2, 4, 8, 16, 32, 64, 128, 29, 58, 116, 232, 205, 135, 19, 38, 76,
    152, 45, 90, 180, 117, 234, 201, 143, 3, 6, 12, 24, 48, 96, 192, 157,
    39, 78, 156, 37, 74, 148, 53, 106, 212, 181, 119, 238, 193, 159, 35, 70,
    140, 5, 10, 20, 40, 80, 160, 93, 186, 105, 210, 185, 111, 222, 161, 95,
    190, 97, 194, 153, 47, 94, 188, 101, 202, 137, 15, 30, 60, 120, 240, 253,
    231, 211, 187, 107, 214, 177, 127, 254, 225, 223, 163, 91, 182, 113, 226, 217,
    175, 67, 134, 17, 34, 68, 136, 13, 26, 52, 104, 208, 189, 103, 206, 129,
    31, 62, 124, 248, 237, 199, 147, 59, 118, 236, 197, 151, 51, 102, 204, 133,
    23, 46, 92, 184, 109, 218, 169, 79, 158, 33, 66, 132, 21, 42, 84, 168,
    77, 154, 41, 82, 164, 85, 170, 73, 146, 57, 114, 228, 213, 183, 115, 230,
    209, 191, 99, 198, 145, 63, 126, 252, 229, 215, 179, 123, 246, 241, 255, 227,
    219, 171, 75, 150, 49, 98, 196, 149, 55, 110, 220, 165, 87, 174, 65, 130,
    25, 50, 100, 200, 141, 7, 14, 28, 56, 112, 224, 221, 167, 83, 166, 81,
    162, 89, 178, 121, 242, 249, 239, 195, 155, 43, 86, 172, 69, 138, 9, 18,
    36, 72, 144, 61, 122, 244, 245, 247, 243, 251, 235, 203, 139, 11, 22, 44,
    88, 176, 125, 250, 233, 207, 131, 27, 54, 108, 216, 173, 71, 142, 1, 2
>>

LOG == <<
    0, 0, 1, 25, 2, 50, 26, 198, 3, 223, 51, 238, 27, 104, 199, 75,
    4, 100, 224, 14, 52, 141, 239, 129, 28, 193, 105, 248, 200, 8, 76, 113,
    5, 138, 101, 47, 225, 36, 15, 33, 53, 147, 142, 218, 240, 18, 130, 69,
    29, 181, 194, 125, 106, 39, 249, 185, 201, 154, 9, 120, 77, 228, 114, 166,
    6, 191, 139, 98, 102, 221, 48, 253, 226, 152, 37, 179, 16, 145, 34, 136,
    54, 208, 148, 206, 143, 150, 219, 189, 241, 210, 19, 92, 131, 56, 70, 64,
    30, 66, 182, 163, 195, 72, 126, 110, 107, 58, 40, 84, 250, 133, 186, 61,
    202, 94, 155, 159, 10, 21, 121, 43, 78, 212, 229, 172, 115, 243, 167, 87,
    7, 112, 192, 247, 140, 128, 99, 13, 103, 74, 222, 237, 49, 197, 254, 24,
    227, 165, 153, 119, 38, 184, 180, 124, 17, 68, 146, 217, 35, 32, 137, 46,
    55, 63, 209, 91, 149, 188, 207, 205, 144, 135, 151, 178, 220, 252, 190, 97,
    242, 86, 211, 171, 20, 42, 93, 158, 132, 60, 57, 83, 71, 109, 65, 162,
    31, 45, 67, 216, 183, 123, 164, 118, 196, 23, 73, 236, 127, 12, 111, 246,
    108, 161, 59, 82, 41, 157, 85, 170, 251, 96, 134, 177, 187, 204, 62, 90,
    203, 89, 95, 176, 156, 169, 160, 81, 11, 245, 22, 235, 122, 117, 44, 215,
    79, 174, 213, 233, 230, 231, 173, 232, 116, 214, 244, 234, 168, 80, 88, 175
>>

(* ------------------------------------------------------------------ *)
(* u8 arithmetic                                                      *)
(* ------------------------------------------------------------------ *)

U8_MODULUS == 256

Byte == 0 .. (U8_MODULUS - 1)

RECURSIVE BitXor(_, _, _)
BitXor(x, y, bits) ==
    IF bits = 0 THEN 0
    ELSE ((x + y) % 2) + 2 * BitXor(x \div 2, y \div 2, bits - 1)

(* A sequence given by its elements, computed once and stored (a slice or
   Vec of the source holds values, not a rule for computing them). *)
Stored(f) == SubSeq(f, 1, Len(f))

(* The u8 operator ^ of Rust, tabulated once: x ^ y is XorTable[x + 1][y + 1] *)
XorTable ==
    Stored([x \in 1 .. U8_MODULUS |->
        Stored([y \in 1 .. U8_MODULUS |-> BitXor(x - 1, y - 1, 8)])])

(* F applied to the value of v, v computed first: the order in which the
   source runs two halves of a loop one after the other. *)
AndThen(v, F(_)) == CHOOSE r \in {F(x) : x \in {v}} : TRUE

(* gf::add, x ^ y *)
add(x, y) == XorTable[x + 1][y + 1]

(* gf::sub, x ^ y *)
sub(x, y) == XorTable[x + 1][y + 1]

(* Mutation: no test for a zero operand *)
mul_without_zero_test(x, y) ==
    LET log_x == LOG[x + 1]
        log_y == LOG[y + 1]
        exp_index == log_x + log_y
    IN  EXP[exp_index + 1]

(* gf::mul *)
mul(x, y) ==
    IF x = 0 \/ y = 0 THEN 0
    ELSE LET log_x == LOG[x + 1]
             log_y == LOG[y + 1]
             exp_index == log_x + log_y
         IN  EXP[exp_index + 1]

(* The LOG entries gf::mul reads, by their index *)
mul_log_reads(x, y) == IF x = 0 \/ y = 0 THEN {} ELSE {x, y}

(* debug_assert!(y != 0) of gf::div *)
div_precondition(x, y) == y # 0

(* Mutation: the logarithms subtracted the other way round *)
div_swapped(x, y) ==
    IF x = 0 THEN 0
    ELSE LET log_x == LOG[x + 1]
             log_y == LOG[y + 1]
             exp_index == (log_y + 255 - log_x) % 255
         IN  EXP[exp_index + 1]

(* gf::div past its debug_assert *)
div(x, y) ==
    IF x = 0 THEN 0
    ELSE LET log_x == LOG[x + 1]
             log_y == LOG[y + 1]
             exp_index == (log_x + 255 - log_y) % 255
         IN  EXP[exp_index + 1]

(* The LOG entries gf::div reads *)
div_log_reads(x, y) == IF x = 0 THEN {} ELSE {x, y}

(* Half the width of an i32, as a factor: 2^16 *)
I32_HALF == 65536

(* a * b on i32 for a u8 a: the value a build without overflow checks
   stores (the product modulo 2^32, as a signed number), and whether the
   product left the i32 range (a panic in a build that checks).  The
   product is formed in halves of 16 bits. *)
mul_i32(a, b) ==
    LET lo_b     == b % I32_HALF
        hi_b     == b \div I32_HALF
        low      == a * lo_b
        hi_total == a * hi_b + (low \div I32_HALF)
        lo       == low % I32_HALF
        hi       == hi_total % I32_HALF
        signed   == IF 2 * hi >= I32_HALF THEN hi - I32_HALF ELSE hi
    IN  [ value |-> signed * I32_HALF + lo, overflow |-> hi_total # signed ]

(* The % of Rust on i32: the remainder of the division that truncates
   toward zero, so it has the sign of the dividend. *)
RustRem(a, m) ==
    LET floored == a % m
    IN  IF a >= 0 \/ floored = 0 THEN floored ELSE floored - m

(* gf::pow: LOG[x] as i32 * power % 255, plus 255 when negative *)
pow(x, power) ==
    LET r == RustRem(mul_i32(LOG[x + 1], power).value, 255)
        i == IF r < 0 THEN r + 255 ELSE r
    IN  EXP[i + 1]

(* LOG[x] as i32 * power overflows *)
pow_overflows(x, power) == mul_i32(LOG[x + 1], power).overflow

(* The LOG entries gf::pow reads *)
pow_log_reads(x, power) == {x}

(* gf::inverse *)
inverse(x) ==
    LET exp_index == 255 - LOG[x + 1]
    IN  EXP[exp_index + 1]

(* The LOG entries gf::inverse reads *)
inverse_log_reads(x) == {x}

(* ------------------------------------------------------------------ *)
(* Polynom<N>, src/gf/poly.rs.  A Polynom value is the record of the  *)
(* struct's three fields; the capacity N is Len(array).  An operation *)
(* that can panic returns the fields it leaves and ok = FALSE.        *)
(* ------------------------------------------------------------------ *)

(* Polynom::new: array [0; N], length 0, dirty false *)
polynom_new(n) ==
    [ array |-> Stored([i \in 1 .. n |-> 0]), length |-> 0,
      dirty |-> FALSE ]

(* Polynom::with_length *)
with_length(n, len) == [polynom_new(n) EXCEPT !.length = len]

(* Polynom::len *)
len(self) == self.length

(* deref_mut: &mut self.array[0..len] panics when len exceeds the array *)
deref_in_bounds(self) == len(self) <= Len(self.array)

(* Mutation: set_length never marks the polynomial dirty *)
set_length_never_dirty(self, new_len) ==
    LET old_len == len(self)
        resized == [self EXCEPT !.length = new_len]
    IN  IF self.dirty /\ new_len > old_len
        THEN IF deref_in_bounds(resized)
             THEN [ self |-> [resized EXCEPT !.array =
                        Stored([i \in 1 .. Len(self.array) |->
                            IF i > old_len /\ i <= new_len THEN 0
                            ELSE self.array[i]])],
                    ok |-> TRUE ]
             ELSE [ self |-> resized, ok |-> FALSE ]
        ELSE [ self |-> resized, ok |-> TRUE ]

(* Polynom::set_length: the length is stored first; a dirty polynomial that
   grows has the slots old_len .. new_len - 1 of its slice zeroed; one that
   shrinks becomes dirty *)
set_length(self, new_len) ==
    LET old_len == len(self)
        resized == [self EXCEPT !.length = new_len]
    IN  IF self.dirty /\ new_len > old_len
        THEN IF deref_in_bounds(resized)
             THEN [ self |-> [resized EXCEPT !.array =
                        Stored([i \in 1 .. Len(self.array) |->
                            IF i > old_len /\ i <= new_len THEN 0
                            ELSE self.array[i]])],
                    ok |-> TRUE ]
             ELSE [ self |-> resized, ok |-> FALSE ]
        ELSE IF new_len < old_len
        THEN [ self |-> [resized EXCEPT !.dirty = TRUE], ok |-> TRUE ]
        ELSE [ self |-> resized, ok |-> TRUE ]

(* Mutation: the length is raised before the slot is written *)
push_after_increment(self, x) ==
    IF self.length + 1 < Len(self.array)
    THEN [ self |-> [self EXCEPT !.array[self.length + 2] = x,
                                 !.length = self.length + 1],
           ok |-> TRUE ]
    ELSE [ self |-> self, ok |-> FALSE ]

(* Polynom::push: self.array[self.length] = x panics past the array *)
push(self, x) ==
    IF self.length < Len(self.array)
    THEN [ self |-> [self EXCEPT !.array[self.length + 1] = x,
                                 !.length = self.length + 1],
           ok |-> TRUE ]
    ELSE [ self |-> self, ok |-> FALSE ]

(* *poly.get_mut(index) = x: self.array[index] panics past the array *)
get_mut_write(self, index, x) ==
    IF index < Len(self.array)
    THEN [ self |-> [self EXCEPT !.array[index + 1] = x], ok |-> TRUE ]
    ELSE [ self |-> self, ok |-> FALSE ]

(* poly[index] = x through deref_mut: the slice is array[0..len] *)
index_write(self, index, x) ==
    IF deref_in_bounds(self) /\ index < len(self)
    THEN [ self |-> [self EXCEPT !.array[index + 1] = x], ok |-> TRUE ]
    ELSE [ self |-> self, ok |-> FALSE ]

(* Polynom::from(slice), past its debug_assert: with_length, then
   poly[..].copy_from_slice(slice) *)
from(n, slice) ==
    LET poly == with_length(n, Len(slice))
    IN  IF deref_in_bounds(poly)
        THEN [ self |-> [poly EXCEPT !.array =
                    Stored([i \in 1 .. n |->
                        IF i <= Len(slice) THEN slice[i] ELSE 0])],
               ok |-> TRUE ]
        ELSE [ self |-> poly, ok |-> FALSE ]

(* ------------------------------------------------------------------ *)
(* Polynomial product, gf::poly_math (Polynom::mul): the convolution  *)
(* over GF(256), result[k] = XOR over i + j = k of mul(a[i], b[j])    *)
(* ------------------------------------------------------------------ *)

(* XOR of mul(a[i], b[k - i]) over i = lo .. hi *)
RECURSIVE XorSum(_, _, _, _, _)
XorSum(a, b, k, lo, hi) ==
    IF lo > hi THEN 0
    ELSE add(mul(a[lo], b[k - lo]), XorSum(a, b, k, lo + 1, hi))

Max(m, n) == IF m >= n THEN m ELSE n

Min(m, n) == IF m <= n THEN m ELSE n

(* With 1-based indices the terms of result[k] are those with i + j = k + 1,
   1 <= i <= Len(a) and 1 <= j <= Len(b). *)
poly_mul(a, b) ==
    Stored([k \in 1 .. (Len(a) + Len(b) - 1) |->
               XorSum(a, b, k + 1, Max(1, k + 1 - Len(b)), Min(Len(a), k))])

(* ------------------------------------------------------------------ *)
(* generator_poly, src/encoder.rs                                     *)
(* ------------------------------------------------------------------ *)

(* One pass of the while loop: mm[1] = gf::pow(2, i); gen = gen.mul(&mm) *)
(* Mutation: the roots start at 2^1, mm[1] = gf::pow(2, i + 1) *)
generator_poly_round_from_1(gen, i) == poly_mul(gen, <<1, pow(2, i + 1)>>)

generator_poly_round(gen, i) == poly_mul(gen, <<1, pow(2, i)>>)

(* The while loop, passes i = lo .. hi - 1 in order (split in halves, so
   that the evaluation nests to a depth of log2 of the number of passes). *)
RECURSIVE generator_poly_loop(_, _, _)
generator_poly_loop(gen, lo, hi) ==
    IF lo >= hi THEN gen
    ELSE IF hi = lo + 1 THEN generator_poly_round(gen, lo)
    ELSE LET mid == (lo + hi) \div 2
         IN  AndThen(generator_poly_loop(gen, lo, mid),
                     LAMBDA g : generator_poly_loop(g, mid, hi))

generator_poly(ecclen) == generator_poly_loop(<<1>>, 0, ecclen)

ENCODE_GEN_2_ECC_BYTES == <<1, 3, 2>>

ENCODE_GEN_4_ECC_BYTES == <<1, 15, 54, 120, 64>>

ENCODE_GEN_8_ECC_BYTES == <<1, 255, 11, 81, 54, 239, 173, 200, 24>>

(* Mutation: the last coefficient of the constant mistyped *)
ENCODE_GEN_16_MISTYPED ==
    <<1, 59, 13, 104, 189, 68, 209, 30, 8, 163, 65, 41, 229, 98, 50, 36, 95>>

ENCODE_GEN_16_ECC_BYTES ==
    <<1, 59, 13, 104, 189, 68, 209, 30, 8, 163, 65, 41, 229, 98, 50, 36, 59>>

(* ------------------------------------------------------------------ *)
(* Encoder, src/encoder.rs.  An encoder value is the record of the    *)
(* struct's four fields; ECC_BYTE_COUNT_STORE is Len(generator).      *)
(* ------------------------------------------------------------------ *)

make_lgenerator(gen) == Stored([i \in 1 .. Len(gen) |-> LOG[gen[i] + 1]])

new_with_precomputed_generator(gen) ==
    [ generator       |-> gen,
      lgenerator      |-> make_lgenerator(gen),
      scratch_space   |-> << >>,
      bytes_processed |-> 0 ]

new(ecc_len) == new_with_precomputed_generator(generator_poly(ecc_len))

(* Mutation: reset clears the buffer and keeps the counter *)
reset_keeps_count(self) == [self EXCEPT !.scratch_space = << >>]

(* Mutation: reset also clears the cached logarithms *)
reset_clears_lgenerator(self) ==
    [self EXCEPT !.scratch_space = << >>, !.bytes_processed = 0,
                 !.lgenerator = Stored([i \in 1 .. Len(@) |-> 0])]

reset(self) ==
    [self EXCEPT !.scratch_space = << >>, !.bytes_processed = 0]

(* Mutation: the loop stops one coefficient early,
   for j in 1..generator.len() - 1 *)
run_encoding_round_short(self) ==
    LET coef == self.scratch_space[1]
    IN  IF coef # 0
        THEN LET lcoef == LOG[coef + 1]
             IN  [self EXCEPT !.scratch_space =
                    Stored([j \in 1 .. Len(self.scratch_space) |->
                        IF j >= 2 /\ j <= Len(self.generator) - 1
                        THEN add(self.scratch_space[j],
                                 EXP[lcoef + self.lgenerator[j] + 1])
                        ELSE self.scratch_space[j]])]
        ELSE self

(* One row of the synthetic division: scratch[j] ^= EXP[lcoef + lgenerator[j]]
   for j in 1..generator.len(), skipped when the leading byte is 0. *)
run_encoding_round(self) ==
    LET coef == self.scratch_space[1]
    IN  IF coef # 0
        THEN LET lcoef == LOG[coef + 1]
             IN  [self EXCEPT !.scratch_space =
                    Stored([j \in 1 .. Len(self.scratch_space) |->
                        IF j >= 2 /\ j <= Len(self.generator)
                        THEN add(self.scratch_space[j],
                                 EXP[lcoef + self.lgenerator[j] + 1])
                        ELSE self.scratch_space[j]])]
        ELSE self

(* scratch_space.rotate_left(1); scratch_space[generator.len() - 1] = tail *)
rotate_in(self, tail) ==
    LET rotated == Append(Tail(self.scratch_space), self.scratch_space[1])
    IN  [self EXCEPT !.scratch_space =
            [rotated EXCEPT ![Len(self.generator)] = tail]]

(* scratch_space.resize(generator.len(), 0) *)
resize_scratch(self) ==
    [self EXCEPT !.scratch_space =
        Stored([j \in 1 .. Len(self.generator) |->
            IF j <= Len(self.scratch_space) THEN self.scratch_space[j] ELSE 0])]

(* The for loop of finalize: rounds times, run_encoding_round, rotate_left(1)
   and a 0 at the tail (split in halves, as above). *)
RECURSIVE finalize_rounds(_, _)
finalize_rounds(self, rounds) ==
    IF rounds <= 0 THEN self
    ELSE IF rounds = 1 THEN rotate_in(run_encoding_round(self), 0)
    ELSE LET half == rounds \div 2
         IN  AndThen(finalize_rounds(self, half),
                     LAMBDA s : finalize_rounds(s, rounds - half))

(* Mutation: a short message is padded and then divided generator.len()
   times, rounds is not lowered *)
finalize_full_rounds(self) ==
    IF Len(self.scratch_space) = 0
    THEN [self |-> self, ok |-> FALSE, out |-> << >>]
    ELSE LET short  == Len(self.scratch_space) < Len(self.generator)
             padded == IF short THEN resize_scratch(self) ELSE self
             done   == finalize_rounds(padded, Len(self.generator))
         IN  [ self |-> reset(done),
               ok   |-> TRUE,
               out  |-> SubSeq(done.scratch_space, 1, Len(self.generator) - 1) ]

(* Mutation: no early return on an empty scratch buffer *)
finalize_unguarded(self) ==
    LET short  == Len(self.scratch_space) < Len(self.generator)
        rounds == IF short THEN Len(self.scratch_space)
                  ELSE Len(self.generator)
        padded == IF short THEN resize_scratch(self) ELSE self
        done   == finalize_rounds(padded, rounds)
    IN  [ self |-> reset(done),
          ok   |-> TRUE,
          out  |-> SubSeq(done.scratch_space, 1, Len(self.generator) - 1) ]

(* Encoder::finalize: Err(()) is ok = FALSE *)
finalize(self) ==
    IF Len(self.scratch_space) = 0
    THEN [self |-> self, ok |-> FALSE, out |-> << >>]
    ELSE LET short  == Len(self.scratch_space) < Len(self.generator)
             rounds == IF short THEN Len(self.scratch_space)
                       ELSE Len(self.generator)
             padded == IF short THEN resize_scratch(self) ELSE self
             done   == finalize_rounds(padded, rounds)
         IN  [ self |-> reset(done),
               ok   |-> TRUE,
               out  |-> SubSeq(done.scratch_space, 1, Len(self.generator) - 1) ]

(* self.bytes_processed += 1 on a u8: the value a release build stores *)
bump(self) ==
    [self EXCEPT !.bytes_processed = (@ + 1) % U8_MODULUS]

(* Mutation: the limit is 255 - generator.len() *)
encode_single_at_255(self, data) ==
    IF Len(self.scratch_space) < Len(self.generator)
    THEN [ self      |-> bump([self EXCEPT !.scratch_space = Append(@, data)]),
           out       |-> <<data>>,
           finalized |-> FALSE,
           overflow  |-> self.bytes_processed + 1 >= U8_MODULUS ]
    ELSE LET fed  == bump(rotate_in(run_encoding_round(self), data))
             over == self.bytes_processed + 1 >= U8_MODULUS
         IN  IF fed.bytes_processed
                    = (U8_MODULUS - 1 - Len(self.generator)) % U8_MODULUS
             THEN LET f == finalize(fed)
                  IN  [ self |-> f.self, out |-> <<data>> \o f.out,
                        finalized |-> TRUE, overflow |-> over ]
             ELSE [ self |-> fed, out |-> <<data>>,
                    finalized |-> FALSE, overflow |-> over ]

(* Mutation: the finalizing call returns the ECC without ecc.insert(0, data) *)
encode_single_without_insert(self, data) ==
    IF Len(self.scratch_space) < Len(self.generator)
    THEN [ self      |-> bump([self EXCEPT !.scratch_space = Append(@, data)]),
           out       |-> <<data>>,
           finalized |-> FALSE,
           overflow  |-> self.bytes_processed + 1 >= U8_MODULUS ]
    ELSE LET fed  == bump(rotate_in(run_encoding_round(self), data))
             over == self.bytes_processed + 1 >= U8_MODULUS
         IN  IF fed.bytes_processed
                    = (U8_MODULUS - Len(self.generator)) % U8_MODULUS
             THEN LET f == finalize(fed)
                  IN  [ self |-> f.self, out |-> f.out,
                        finalized |-> TRUE, overflow |-> over ]
             ELSE [ self |-> fed, out |-> <<data>>,
                    finalized |-> FALSE, overflow |-> over ]

(* Mutation: the filling branch is taken while scratch_space.len() <=
   generator.len(), one push more than the buffer's capacity *)
encode_single_fills_past(self, data) ==
    IF Len(self.scratch_space) <= Len(self.generator)
    THEN [ self      |-> bump([self EXCEPT !.scratch_space = Append(@, data)]),
           out       |-> <<data>>,
           finalized |-> FALSE,
           overflow  |-> self.bytes_processed + 1 >= U8_MODULUS ]
    ELSE LET fed  == bump(rotate_in(run_encoding_round(self), data))
             over == self.bytes_processed + 1 >= U8_MODULUS
         IN  IF fed.bytes_processed
                    = (U8_MODULUS - Len(self.generator)) % U8_MODULUS
             THEN LET f == finalize(fed)
                  IN  [ self |-> f.self, out |-> <<data>> \o f.out,
                        finalized |-> TRUE, overflow |-> over ]
             ELSE [ self |-> fed, out |-> <<data>>,
                    finalized |-> FALSE, overflow |-> over ]

(* Encoder::encode_single.  finalized tells the implicit finalization;
   overflow tells that bytes_processed += 1 left the u8 range (a panic in
   a build with overflow checks, the wrapped value otherwise). *)
encode_single(self, data) ==
    IF Len(self.scratch_space) < Len(self.generator)
    THEN [ self      |-> bump([self EXCEPT !.scratch_space = Append(@, data)]),
           out       |-> <<data>>,
           finalized |-> FALSE,
           overflow  |-> self.bytes_processed + 1 >= U8_MODULUS ]
    ELSE LET fed  == bump(rotate_in(run_encoding_round(self), data))
             over == self.bytes_processed + 1 >= U8_MODULUS
         IN  IF fed.bytes_processed
                    = (U8_MODULUS - Len(self.generator)) % U8_MODULUS
             THEN LET f == finalize(fed)
                  IN  [ self |-> f.self, out |-> <<data>> \o f.out,
                        finalized |-> TRUE, overflow |-> over ]
             ELSE [ self |-> fed, out |-> <<data>>,
                    finalized |-> FALSE, overflow |-> over ]

(* The for loop of encode over data[lo .. hi]: ecc = self.encode_single(byte)
   for each byte in order (split in halves, as above).  acc carries the
   encoder, the last value of ecc and whether any increment overflowed. *)
RECURSIVE encode_loop(_, _, _, _)
encode_loop(acc, data, lo, hi) ==
    IF lo > hi THEN acc
    ELSE IF lo = hi
    THEN LET r == encode_single(acc.self, data[lo])
         IN  [ self |-> r.self, ecc |-> r.out,
               overflow |-> acc.overflow \/ r.overflow ]
    ELSE LET mid == (lo + hi) \div 2
         IN  AndThen(encode_loop(acc, data, lo, mid),
                     LAMBDA a : encode_loop(a, data, mid + 1, hi))

(* Mutation: encode returns the last encode_single's vector and never
   finalizes *)
encode_without_finalize(self, data) ==
    LET l == encode_loop([self |-> self, ecc |-> << >>, overflow |-> FALSE],
                         data, 1, Len(data))
    IN  [ self |-> l.self, out |-> l.ecc, overflow |-> l.overflow ]

(* Encoder::encode past its debug_assert *)
encode(self, data) ==
    LET l == encode_loop([self |-> self, ecc |-> << >>, overflow |-> FALSE],
                         data, 1, Len(data))
        f == finalize(l.self)
    IN  [ self     |-> f.self,
          out      |-> IF f.ok THEN f.out ELSE l.ecc,
          overflow |-> l.overflow ]

(* debug_assert!(data.len() < 256 - self.generator.len()) *)
encode_precondition(self, data) ==
    Len(data) < U8_MODULUS - Len(self.generator)

(* Encoder::encode_single in a build that checks overflow, when
   bytes_processed += 1 panics: the encoder as the lines before the
   increment left it, the push of the filling branch (line 82) or the round,
   the rotation and the store of the steady branch (lines 87-90) *)
encode_single_panic(self, data) ==
    IF Len(self.scratch_space) < Len(self.generator)
    THEN [self EXCEPT !.scratch_space = Append(@, data)]
    ELSE rotate_in(run_encoding_round(self), data)

(* The for loop of encode over data[lo .. hi] in a build that checks
   overflow: it ends in the first encode_single whose increment overflows
   (split in halves, as above).  at is the 1-based position of that byte. *)
RECURSIVE encode_loop_checked(_, _, _, _)
encode_loop_checked(acc, data, lo, hi) ==
    IF lo > hi \/ acc.overflow THEN acc
    ELSE IF lo = hi
    THEN LET r == encode_single(acc.self, data[lo])
         IN  IF r.overflow
             THEN [ self |-> encode_single_panic(acc.self, data[lo]),
                    ecc |-> acc.ecc, overflow |-> TRUE, at |-> lo ]
             ELSE [ self |-> r.self, ecc |-> r.out, overflow |-> FALSE,
                    at |-> 0 ]
    ELSE LET mid == (lo + hi) \div 2
         IN  AndThen(encode_loop_checked(acc, data, lo, mid),
                     LAMBDA a : encode_loop_checked(a, data, mid + 1, hi))

(* Encoder::encode past its debug_assert in a build that checks overflow,
   up to the panic of its loop (overflow) or to the end of the loop *)
encode_checked(self, data) ==
    encode_loop_checked([self |-> self, ecc |-> << >>, overflow |-> FALSE,
                         at |-> 0], data, 1, Len(data))

(* The calls of run_encoding_round, observed: the length of scratch_space
   at each call made by the loop of finalize, rounds iterations from self
   (split in halves, as above) *)
RECURSIVE finalize_loop_round_lens(_, _)
finalize_loop_round_lens(self, rounds) ==
    IF rounds <= 0 THEN {}
    ELSE IF rounds = 1 THEN {Len(self.scratch_space)}
    ELSE LET half == rounds \div 2
         IN  finalize_loop_round_lens(self, half)
             \cup finalize_loop_round_lens(finalize_rounds(self, half),
                                           rounds - half)

(* ... by finalize: none on an empty buffer, else after the resize *)
finalize_round_lens(self) ==
    IF Len(self.scratch_space) = 0 THEN {}
    ELSE LET short  == Len(self.scratch_space) < Len(self.generator)
             rounds == IF short THEN Len(self.scratch_space)
                       ELSE Len(self.generator)
             padded == IF short THEN resize_scratch(self) ELSE self
         IN  finalize_loop_round_lens(padded, rounds)

(* ... by encode_single: none in the filling branch, else the round of the
   steady branch and those of the implicit finalize *)
encode_single_round_lens(self, data) ==
    IF Len(self.scratch_space) < Len(self.generator) THEN {}
    ELSE LET fed == bump(rotate_in(run_encoding_round(self), data))
         IN  {Len(self.scratch_space)}
             \cup (IF fed.bytes_processed
                          = (U8_MODULUS - Len(self.generator)) % U8_MODULUS
                   THEN finalize_round_lens(fed)
                   ELSE {})

(* ... by the loop of encode over data[lo .. hi] *)
RECURSIVE encode_loop_round_lens(_, _, _, _)
encode_loop_round_lens(self, data, lo, hi) ==
    IF lo > hi THEN {}
    ELSE IF lo = hi THEN encode_single_round_lens(self, data[lo])
    ELSE LET mid  == (lo + hi) \div 2
             half == encode_loop([self |-> self, ecc |-> << >>,
                                  overflow |-> FALSE], data, lo, mid)
         IN  encode_loop_round_lens(self, data, lo, mid)
             \cup encode_loop_round_lens(half.self, data, mid + 1, hi)

(* ... by encode: its loop, then finalize *)
encode_round_lens(self, data) ==
    LET l == encode_loop([self |-> self, ecc |-> << >>, overflow |-> FALSE],
                         data, 1, Len(data))
    IN  encode_loop_round_lens(self, data, 1, Len(data))
        \cup finalize_round_lens(l.self)

(* ... by an encode_single whose increment panics: the round of the steady
   branch ran before it *)
encode_single_panic_round_lens(self, data) ==
    IF Len(self.scratch_space) < Len(self.generator) THEN {}
    ELSE {Len(self.scratch_space)}

(* ... by an encode whose loop panics on an overflow at data[at]: the calls
   that returned, then the one that panicked *)
encode_panic_round_lens(self, data) ==
    LET at     == encode_checked(self, data).at
        before == encode_loop([self |-> self, ecc |-> << >>,
                               overflow |-> FALSE], data, 1, at - 1)
    IN  encode_loop_round_lens(self, data, 1, at - 1)
        \cup encode_single_panic_round_lens(before.self, data[at])

(* ------------------------------------------------------------------ *)
(* Reference definitions the encoder is compared with                 *)
(* ------------------------------------------------------------------ *)

(* x times the field's generator element 2: a shift, reduced by the
   primitive polynomial 0x11D when it leaves 8 bits *)
PRIMITIVE_POLYNOMIAL == 285

TimesTwo(x) ==
    IF 2 * x >= U8_MODULUS
    THEN add(2 * x - U8_MODULUS, PRIMITIVE_POLYNOMIAL - U8_MODULUS)
    ELSE 2 * x

(* The product of GF(256): carry-less multiplication modulo 0x11D, computed
   without the EXP and LOG tables *)
RECURSIVE FieldProduct(_, _)
FieldProduct(x, y) ==
    IF y = 0 THEN 0
    ELSE add(IF y % 2 = 1 THEN x ELSE 0, FieldProduct(TimesTwo(x), y \div 2))

(* One step of the long division by a monic divisor: the multiple of the
   divisor that cancels r[i] is subtracted at positions i .. i + degree *)
DivisionStep(r, divisor, i) ==
    IF r[i] = 0 THEN r
    ELSE SubSeq(r, 1, i - 1)
         \o Stored([j \in 1 .. Len(divisor) |->
                       sub(r[i + j - 1], FieldProduct(r[i], divisor[j]))])
         \o SubSeq(r, i + Len(divisor), Len(r))

RECURSIVE DivisionSteps(_, _, _, _)
DivisionSteps(r, divisor, lo, hi) ==
    IF lo > hi THEN r
    ELSE IF lo = hi THEN DivisionStep(r, divisor, lo)
    ELSE LET mid == (lo + hi) \div 2
         IN  AndThen(DivisionSteps(r, divisor, lo, mid),
                     LAMBDA q : DivisionSteps(q, divisor, mid + 1, hi))

(* The remainder of dividend / divisor, both highest degree first, for a
   monic divisor: the last Len(divisor) - 1 coefficients left *)
PolyRemainder(dividend, divisor) ==
    LET steps == Len(dividend) - Len(divisor) + 1
        r     == DivisionSteps(dividend, divisor, 1, steps)
    IN  SubSeq(r, Len(dividend) - Len(divisor) + 2, Len(dividend))

(* The batch algorithm of the specification, 4.4: at each data position i
   with a non-zero byte, scratch[i + j] ^= EXP[LOG[scratch[i]] + LOG[gen[j]]]
   for j in 1 .. len(gen) - 1 *)
BatchRow(scratch, gen, i) ==
    IF scratch[i] = 0 THEN scratch
    ELSE LET lcoef == LOG[scratch[i] + 1]
         IN  SubSeq(scratch, 1, i)
             \o Stored([j \in 1 .. Len(gen) - 1 |->
                           add(scratch[i + j],
                               EXP[lcoef + LOG[gen[j + 1] + 1] + 1])])
             \o SubSeq(scratch, i + Len(gen), Len(scratch))

RECURSIVE BatchRows(_, _, _, _)
BatchRows(scratch, gen, lo, hi) ==
    IF lo > hi THEN scratch
    ELSE IF lo = hi THEN BatchRow(scratch, gen, lo)
    ELSE LET mid == (lo + hi) \div 2
         IN  AndThen(BatchRows(scratch, gen, lo, mid),
                     LAMBDA q : BatchRows(q, gen, mid + 1, hi))

(* Copy data, zero-pad ecc_len bytes, divide, take the last ecc_len bytes *)
BatchEncode(gen, data) ==
    LET ecc_len == Len(gen) - 1
        scratch == data \o Stored([k \in 1 .. ecc_len |-> 0])
        divided == BatchRows(scratch, gen, 1, Len(data))
    IN  SubSeq(divided, Len(data) + 1, Len(data) + ecc_len)

(* ------------------------------------------------------------------ *)
(* The state machine: one encoder and its caller                      *)
(* ------------------------------------------------------------------ *)

(* ECC lengths of the encoders built with Encoder::new and fed the counting
   stream *)
EccLens == {0, 1, 2, 8, 10}

(* Arrays passed to Encoder::new_with_precomputed_generator *)
PrecomputedGenerators ==
    { ENCODE_GEN_2_ECC_BYTES, ENCODE_GEN_4_ECC_BYTES,
      ENCODE_GEN_8_ECC_BYTES, ENCODE_GEN_16_ECC_BYTES }

(* ECC lengths of the encoders whose generator is longer than half a block
   (generator.len() >= 128); their caller feeds zero bytes *)
WideEccLens == {250}

(* Bytes a caller may feed at the first MaxFree positions of a stream *)
DataBytes == {0, 1, 255}

MaxFree == 1

(* Most bytes fed to encode_single in one stream *)
MaxFed == 264

(* Lengths of the slices passed to encode, beside the two around its limit *)
EncodeLens == {0, 1, 5, 30}

VARIABLES
    generator,        \* Encoder.generator
    lgenerator,       \* Encoder.lgenerator
    scratch_space,    \* Encoder.scratch_space
    bytes_processed,  \* Encoder.bytes_processed
    panicked,         \* the last call panicked (the program is over)
    source,           \* the caller's data: "counting" or "zeros"
    fed,              \* history: bytes accepted since the encoder last reset
    input,            \* history: bytes fed in the caller's current stream
    emitted,          \* history: what the calls of that stream returned, in order
    last,             \* history: the last call, its argument, result and pre-state
    gp,               \* generator_poly's call frame: ecclen, i, gen, mm
    poly,             \* a Polynom: array, length, dirty
    pcall,            \* history: the last call on the Polynom and its pre-state
    gfc               \* a call of a gf function: arguments and result

vars == << generator, lgenerator, scratch_space, bytes_processed, panicked,
           source, fed, input, emitted, last, gp, poly, pcall, gfc >>

Self ==
    [ generator       |-> generator,
      lgenerator      |-> lgenerator,
      scratch_space   |-> scratch_space,
      bytes_processed |-> bytes_processed ]

Becomes(self) ==
    /\ generator' = self.generator
    /\ lgenerator' = self.lgenerator
    /\ scratch_space' = self.scratch_space
    /\ bytes_processed' = self.bytes_processed

(* The record of a call: its argument (data for encode_single, bytes for
   encode), whether it returned (encode_single, encode) or returned Ok
   (finalize), what it returned, whether it finalized implicitly, the
   encoder and the bytes it had accepted before the call, and what made it
   panic ("debug_assert", "overflow"; "none" for a call that returned). *)
Call(op, data, bytes, ok, out, finalized) ==
    [ op |-> op, data |-> data, bytes |-> bytes, ok |-> ok, out |-> out,
      finalized |-> finalized, pre |-> Self, fed |-> fed,
      panic |-> "none" ]

(* data[i] = i as u8, the stream of tests::encode_large and of the golden
   vectors *)
Counting(n) == Stored([i \in 1 .. n |-> (i - 1) % U8_MODULUS])

Zeros(n) == Stored([i \in 1 .. n |-> 0])

(* A stream ends with an explicit finalize; the next byte starts another *)
StreamOpen == last.op # "finalize"

StreamPos == IF StreamOpen THEN Len(input) ELSE 0

StreamBytes(pos) ==
    IF source = "zeros" THEN {0}
    ELSE {pos % U8_MODULUS} \cup (IF pos < MaxFree THEN DataBytes ELSE {})

(* The slices the caller passes to encode *)
EncodeInputs ==
    LET limit == U8_MODULUS - Len(generator)
        lens  == EncodeLens \cup {limit - 1, limit}
    IN  IF source = "zeros" THEN { Zeros(n) : n \in lens }
        ELSE { Counting(n) : n \in lens } \cup { <<b>> : b \in DataBytes }

(* generator_poly's frame once the constructor returned *)
NoFrame == [ pc |-> "done", ecclen |-> 0, i |-> 0, gen |-> << >>,
             mm |-> << >> ]

(* No Polynom and no gf call are part of a run of the encoder *)
NoPolynom == [ array |-> << >>, length |-> 0, dirty |-> FALSE ]

NoPolynomCall ==
    [ op |-> "none", arg |-> 0, index |-> 0, ok |-> TRUE, pre |-> NoPolynom,
      shrunk |-> FALSE ]

NoGfCall ==
    [ kind |-> "none", op |-> "none", x |-> 0, y |-> 0, m |-> 0, n |-> 0,
      ok |-> TRUE, out |-> 0, reads |-> {} ]

Constructed(self, src) ==
    /\ gp = NoFrame
    /\ poly = NoPolynom
    /\ pcall = NoPolynomCall
    /\ gfc = NoGfCall
    /\ generator = self.generator
    /\ lgenerator = self.lgenerator
    /\ scratch_space = self.scratch_space
    /\ bytes_processed = self.bytes_processed
    /\ panicked = FALSE
    /\ source = src
    /\ fed = << >>
    /\ input = << >>
    /\ emitted = << >>
    /\ last = [ op |-> "new", data |-> 0, bytes |-> << >>, ok |-> TRUE,
                out |-> << >>, finalized |-> FALSE, pre |-> self,
                fed |-> << >>, panic |-> "none" ]

Init ==
    \/ \E ecc_len \in EccLens : Constructed(new(ecc_len), "counting")
    \/ \E gen \in PrecomputedGenerators :
          Constructed(new_with_precomputed_generator(gen), "counting")
    \/ \E ecc_len \in WideEccLens : Constructed(new(ecc_len), "zeros")

(* encoder.encode_single(data) returns *)
EncodeSingle(data) ==
    /\ ~panicked
    /\ StreamPos < MaxFed
    /\ LET r == encode_single(Self, data)
       IN  /\ Becomes(r.self)
           /\ fed' = IF r.finalized THEN << >> ELSE Append(fed, data)
           /\ input' = IF StreamOpen THEN Append(input, data) ELSE <<data>>
           /\ emitted' = IF StreamOpen THEN emitted \o r.out ELSE r.out
           /\ last' = Call("encode_single", data, << >>, TRUE, r.out,
                           r.finalized)
    /\ UNCHANGED << panicked, source, gp, poly, pcall, gfc >>

(* encoder.encode_single(data) panics: bytes_processed += 1 overflows the u8
   in a build that checks overflow, after the lines before it changed
   scratch_space *)
EncodeSinglePanic(data) ==
    /\ ~panicked
    /\ StreamPos < MaxFed
    /\ encode_single(Self, data).overflow
    /\ Becomes(encode_single_panic(Self, data))
    /\ panicked' = TRUE
    /\ last' = [Call("encode_single", data, << >>, FALSE, << >>, FALSE)
                 EXCEPT !.panic = "overflow"]
    /\ UNCHANGED << source, fed, input, emitted, gp, poly, pcall, gfc >>

(* encoder.finalize() *)
Finalize ==
    /\ ~panicked
    /\ LET r == finalize(Self)
       IN  /\ Becomes(r.self)
           /\ fed' = IF r.ok THEN << >> ELSE fed
           /\ input' = IF StreamOpen THEN input ELSE << >>
           /\ emitted' = IF StreamOpen THEN emitted \o r.out ELSE << >>
           /\ last' = Call("finalize", 0, << >>, r.ok, r.out, FALSE)
    /\ UNCHANGED << panicked, source, gp, poly, pcall, gfc >>

(* encoder.reset() *)
Reset ==
    /\ ~panicked
    /\ Becomes(reset(Self))
    /\ fed' = << >>
    /\ input' = << >>
    /\ emitted' = << >>
    /\ last' = Call("reset", 0, << >>, TRUE, << >>, FALSE)
    /\ UNCHANGED << panicked, source, gp, poly, pcall, gfc >>

(* The counting caller calls encode within the first MaxFree bytes of a
   stream, and not right after it ended or abandoned a longer one; the
   caller of zeros at any point *)
EncodeCalled ==
    \/ source = "zeros"
    \/ Len(input) <= MaxFree /\ Len(last.fed) <= MaxFree

(* encoder.encode(data) returns: the debug_assert holds or is compiled out *)
Encode(data) ==
    /\ ~panicked
    /\ EncodeCalled
    /\ LET r == encode(Self, data)
       IN  /\ Becomes(r.self)
           /\ last' = Call("encode", 0, data, TRUE, r.out, FALSE)
    /\ fed' = << >>
    /\ input' = << >>
    /\ emitted' = << >>
    /\ UNCHANGED << panicked, source, gp, poly, pcall, gfc >>

(* encoder.encode(data) panics: the debug_assert fails in a build that
   checks it, before anything changed; or, in a build that checks overflow,
   an increment of bytes_processed overflows in the loop, after the calls
   before it and the lines before the increment changed the encoder *)
EncodePanic(data) ==
    /\ ~panicked
    /\ EncodeCalled
    /\ \/ /\ ~encode_precondition(Self, data)
          /\ UNCHANGED << generator, lgenerator, scratch_space,
                          bytes_processed >>
          /\ last' = [Call("encode", 0, data, FALSE, << >>, FALSE)
                       EXCEPT !.panic = "debug_assert"]
       \/ /\ encode_checked(Self, data).overflow
          /\ Becomes(encode_checked(Self, data).self)
          /\ last' = [Call("encode", 0, data, FALSE, << >>, FALSE)
                       EXCEPT !.panic = "overflow"]
    /\ panicked' = TRUE
    /\ UNCHANGED << source, fed, input, emitted, gp, poly, pcall, gfc >>

Next ==
    \/ \E data \in StreamBytes(StreamPos) : EncodeSingle(data)
    \/ \E data \in StreamBytes(StreamPos) : EncodeSinglePanic(data)
    \/ Finalize
    \/ Reset
    \/ \E data \in EncodeInputs : Encode(data)
    \/ \E data \in EncodeInputs : EncodePanic(data)

Spec == Init /\ [][Next]_vars

(* ------------------------------------------------------------------ *)
(* Construction: generator_poly step by step, then the constructors   *)
(* ------------------------------------------------------------------ *)

(* Largest ECC length generated, the largest of tests::generator_poly *)
MaxEccLen == 64

PrecomputedLens == {2, 4, 8, 16}

Precomputed(k) ==
    CASE k = 2 -> ENCODE_GEN_2_ECC_BYTES
      [] k = 4 -> ENCODE_GEN_4_ECC_BYTES
      [] k = 8 -> ENCODE_GEN_8_ECC_BYTES
      [] k = 16 -> ENCODE_GEN_16_ECC_BYTES

NoEncoder ==
    [ generator |-> << >>, lgenerator |-> << >>, scratch_space |-> << >>,
      bytes_processed |-> 0 ]

(* generator_poly(ecclen) was called by Encoder::new(ecclen):
   gen = polynom![1], mm = [1, 0], i = 0 *)
InitGen ==
    /\ \E ecclen \in 0 .. MaxEccLen :
          gp = [ pc |-> "loop", ecclen |-> ecclen, i |-> 0, gen |-> <<1>>,
                 mm |-> <<1, 0>> ]
    /\ generator = << >>
    /\ lgenerator = << >>
    /\ scratch_space = << >>
    /\ bytes_processed = 0
    /\ panicked = FALSE
    /\ source = "counting"
    /\ fed = << >>
    /\ input = << >>
    /\ emitted = << >>
    /\ last = [ op |-> "generator_poly", data |-> 0, bytes |-> << >>,
                ok |-> TRUE, out |-> << >>, finalized |-> FALSE,
                pre |-> NoEncoder, fed |-> << >>, panic |-> "none" ]
    /\ poly = NoPolynom
    /\ pcall = NoPolynomCall
    /\ gfc = NoGfCall

(* One iteration of the while loop *)
GenRound ==
    /\ gp.pc = "loop"
    /\ gp.i < gp.ecclen
    /\ gp' = [ gp EXCEPT !.mm = [gp.mm EXCEPT ![2] = pow(2, gp.i)],
                         !.gen = generator_poly_round(gp.gen, gp.i),
                         !.i = gp.i + 1 ]
    /\ UNCHANGED << generator, lgenerator, scratch_space, bytes_processed,
                    panicked, source, fed, input, emitted, last, poly,
                    pcall, gfc >>

(* The loop ends and generator_poly returns gen *)
GenReturn ==
    /\ gp.pc = "loop"
    /\ gp.i >= gp.ecclen
    /\ gp' = [gp EXCEPT !.pc = "returned"]
    /\ UNCHANGED << generator, lgenerator, scratch_space, bytes_processed,
                    panicked, source, fed, input, emitted, last, poly,
                    pcall, gfc >>

(* Encoder::new builds the encoder from what generator_poly returned *)
New ==
    /\ gp.pc = "returned"
    /\ Becomes(new_with_precomputed_generator(gp.gen))
    /\ gp' = [gp EXCEPT !.pc = "new"]
    /\ last' = [last EXCEPT !.op = "new"]
    /\ UNCHANGED << panicked, source, fed, input, emitted, poly, pcall, gfc >>

(* Encoder::new_with_precomputed_generator(&ENCODE_GEN_k_ECC_BYTES), called
   in place of Encoder::new(k) *)
NewWithPrecomputedGenerator ==
    /\ gp.pc = "returned"
    /\ gp.ecclen \in PrecomputedLens
    /\ Becomes(new_with_precomputed_generator(Precomputed(gp.ecclen)))
    /\ gp' = [gp EXCEPT !.pc = "precomputed"]
    /\ last' = [last EXCEPT !.op = "new_with_precomputed_generator"]
    /\ UNCHANGED << panicked, source, fed, input, emitted, poly, pcall, gfc >>

NextGen ==
    \/ GenRound
    \/ GenReturn
    \/ New
    \/ NewWithPrecomputedGenerator

SpecGen == InitGen /\ [][NextGen]_vars

(* ------------------------------------------------------------------ *)
(* The field primitives: a caller draws the arguments, then calls one *)
(* of gf::mul, gf::div, gf::pow and gf::inverse                       *)
(* ------------------------------------------------------------------ *)

(* The largest exponent passed to gf::pow, 2^29; its negative the smallest *)
LargeExponent == 536870912

Exponents ==
    { 0 - LargeExponent, -70000, -256, -255, -254, -1, 0, 1, 2, 254, 255,
      256, 70000, LargeExponent }

EncoderIdle ==
    /\ generator = << >>
    /\ lgenerator = << >>
    /\ scratch_space = << >>
    /\ bytes_processed = 0
    /\ panicked = FALSE
    /\ source = "counting"
    /\ fed = << >>
    /\ input = << >>
    /\ emitted = << >>
    /\ last = [ op |-> "none", data |-> 0, bytes |-> << >>, ok |-> TRUE,
                out |-> << >>, finalized |-> FALSE, pre |-> NoEncoder,
                fed |-> << >>, panic |-> "none" ]
    /\ gp = NoFrame

InitGf ==
    /\ EncoderIdle
    /\ poly = NoPolynom
    /\ pcall = NoPolynomCall
    /\ \/ \E x \in Byte, y \in Byte :
            gfc = [NoGfCall EXCEPT !.kind = "binary", !.x = x, !.y = y]
       \/ \E x \in Byte, m \in Exponents, n \in Exponents :
            gfc = [NoGfCall EXCEPT !.kind = "power", !.x = x, !.m = m,
                                   !.n = n]
       \/ \E x \in Byte :
            gfc = [NoGfCall EXCEPT !.kind = "unary", !.x = x]

GfIdle ==
    UNCHANGED << generator, lgenerator, scratch_space, bytes_processed,
                 panicked, source, fed, input, emitted, last, gp, poly,
                 pcall >>

(* gf::mul(x, y) *)
Mul ==
    /\ gfc.kind = "binary" /\ gfc.op = "none"
    /\ gfc' = [gfc EXCEPT !.op = "mul", !.out = mul(gfc.x, gfc.y),
                          !.reads = mul_log_reads(gfc.x, gfc.y)]
    /\ GfIdle

(* gf::div(x, y) returns: the debug_assert holds or is compiled out *)
Div ==
    /\ gfc.kind = "binary" /\ gfc.op = "none"
    /\ gfc' = [gfc EXCEPT !.op = "div", !.out = div(gfc.x, gfc.y),
                          !.reads = div_log_reads(gfc.x, gfc.y)]
    /\ GfIdle

(* gf::div(x, 0) panics in a build with debug assertions *)
DivPanic ==
    /\ gfc.kind = "binary" /\ gfc.op = "none"
    /\ ~div_precondition(gfc.x, gfc.y)
    /\ gfc' = [gfc EXCEPT !.op = "div", !.ok = FALSE]
    /\ GfIdle

(* gf::pow(x, m) returns: the product did not overflow, or overflow is not
   checked *)
Pow ==
    /\ gfc.kind = "power" /\ gfc.op = "none"
    /\ gfc' = [gfc EXCEPT !.op = "pow", !.out = pow(gfc.x, gfc.m),
                          !.reads = pow_log_reads(gfc.x, gfc.m)]
    /\ GfIdle

(* gf::pow(x, m) panics: LOG[x] as i32 * power overflows in a build that
   checks overflow *)
PowPanic ==
    /\ gfc.kind = "power" /\ gfc.op = "none"
    /\ pow_overflows(gfc.x, gfc.m)
    /\ gfc' = [gfc EXCEPT !.op = "pow", !.ok = FALSE,
                          !.reads = pow_log_reads(gfc.x, gfc.m)]
    /\ GfIdle

(* gf::inverse(x) *)
Inverse ==
    /\ gfc.kind = "unary" /\ gfc.op = "none"
    /\ gfc' = [gfc EXCEPT !.op = "inverse", !.out = inverse(gfc.x),
                          !.reads = inverse_log_reads(gfc.x)]
    /\ GfIdle

NextGf ==
    \/ Mul
    \/ Div
    \/ DivPanic
    \/ Pow
    \/ PowPanic
    \/ Inverse

SpecGf == InitGf /\ [][NextGf]_vars

(* ------------------------------------------------------------------ *)
(* A Polynom and its caller                                           *)
(* ------------------------------------------------------------------ *)

(* The capacities N of the polynomials built *)
MaxCapacity == 3

(* How far past the capacity the lengths the caller asks for reach *)
MaxOver == 1

(* The coefficients the caller writes *)
PolyBytes == {0, 1, 255}

Ones(n) == Stored([i \in 1 .. n |-> 1])

PolynomCall(op, arg, index, ok, shrunk) ==
    [ op |-> op, arg |-> arg, index |-> index, ok |-> ok, pre |-> poly,
      shrunk |-> shrunk ]

PolyIdle ==
    UNCHANGED << generator, lgenerator, scratch_space, bytes_processed,
                 panicked, source, fed, input, emitted, last, gp, gfc >>

(* Polynom::<N>::with_length(len), or Polynom::<N>::from of a slice of
   ones as in tests::set_length *)
InitPoly ==
    /\ EncoderIdle
    /\ gfc = NoGfCall
    /\ \E n \in 0 .. MaxCapacity :
          \/ \E l \in 0 .. n + MaxOver :
                /\ poly = with_length(n, l)
                /\ pcall = [NoPolynomCall EXCEPT !.op = "with_length",
                                !.arg = l, !.pre = polynom_new(n)]
          \/ \E l \in 0 .. n :
                /\ poly = from(n, Ones(l)).self
                /\ pcall = [NoPolynomCall EXCEPT !.op = "from", !.arg = l,
                                !.pre = polynom_new(n)]

(* poly.set_length(new_len) returns *)
SetLength(new_len) ==
    /\ pcall.ok
    /\ set_length(poly, new_len).ok
    /\ poly' = set_length(poly, new_len).self
    /\ pcall' = PolynomCall("set_length", new_len, 0, TRUE,
                            pcall.shrunk \/ new_len < len(poly))
    /\ PolyIdle

(* poly.set_length(new_len) panics taking the slice to zero, the length
   already stored *)
SetLengthPanic(new_len) ==
    /\ pcall.ok
    /\ ~set_length(poly, new_len).ok
    /\ poly' = set_length(poly, new_len).self
    /\ pcall' = PolynomCall("set_length", new_len, 0, FALSE, pcall.shrunk)
    /\ PolyIdle

(* poly.push(x) returns *)
Push(x) ==
    /\ pcall.ok
    /\ push(poly, x).ok
    /\ poly' = push(poly, x).self
    /\ pcall' = PolynomCall("push", x, 0, TRUE, pcall.shrunk)
    /\ PolyIdle

(* poly.push(x) panics on the index past the array *)
PushPanic(x) ==
    /\ pcall.ok
    /\ ~push(poly, x).ok
    /\ poly' = push(poly, x).self
    /\ pcall' = PolynomCall("push", x, 0, FALSE, pcall.shrunk)
    /\ PolyIdle

(* poly[index] = x, index within the logical length *)
IndexWrite(index, x) ==
    /\ pcall.ok
    /\ index_write(poly, index, x).ok
    /\ poly' = index_write(poly, index, x).self
    /\ pcall' = PolynomCall("index_write", x, index, TRUE, pcall.shrunk)
    /\ PolyIdle

(* *poly.get_mut(index) = x, index within the array *)
GetMutWrite(index, x) ==
    /\ pcall.ok
    /\ get_mut_write(poly, index, x).ok
    /\ poly' = get_mut_write(poly, index, x).self
    /\ pcall' = PolynomCall("get_mut", x, index, TRUE, pcall.shrunk)
    /\ PolyIdle

NextPoly ==
    \/ \E new_len \in 0 .. Len(poly.array) + MaxOver : SetLength(new_len)
    \/ \E new_len \in 0 .. Len(poly.array) + MaxOver : SetLengthPanic(new_len)
    \/ \E x \in PolyBytes : Push(x)
    \/ \E x \in PolyBytes : PushPanic(x)
    \/ \E index \in 0 .. Len(poly.array), x \in PolyBytes :
          IndexWrite(index, x)
    \/ \E index \in 0 .. Len(poly.array), x \in PolyBytes :
          GetMutWrite(index, x)

SpecPoly == InitPoly /\ [][NextPoly]_vars

(* ------------------------------------------------------------------ *)
(* Construction from any array: a caller builds an encoder with       *)
(* new_with_precomputed_generator or new, then streams a few bytes    *)
(* ------------------------------------------------------------------ *)

(* The longest array passed, ECC_BYTE_COUNT_STORE *)
MaxStore == 3

(* The coefficients of the arrays passed *)
ShapeBytes == {0, 1, 2, 3}

RECURSIVE Arrays(_)
Arrays(n) ==
    IF n = 0 THEN { << >> }
    ELSE { Append(a, b) : a \in Arrays(n - 1), b \in ShapeBytes }

GeneratorArrays == UNION { Arrays(n) : n \in 1 .. MaxStore }

(* Most bytes streamed through an encoder built from an array *)
MaxShapeFed == 5

(* debug_assert!(ecc_len == ECC_BYTE_COUNT_STORE - 1) of Encoder::new; the
   try_into().unwrap() of the generator fails on the same condition *)
new_precondition(store, ecc_len) == ecc_len = store - 1

InitNew ==
    /\ EncoderIdle
    /\ poly = NoPolynom
    /\ pcall = NoPolynomCall
    /\ gfc = NoGfCall

(* Encoder::<N>::new_with_precomputed_generator(&gen), gen any [u8; N] *)
NewWithArray(gen) ==
    /\ last.op = "none"
    /\ Becomes(new_with_precomputed_generator(gen))
    /\ last' = [last EXCEPT !.op = "new_with_precomputed_generator",
                            !.bytes = gen]
    /\ UNCHANGED << panicked, source, fed, input, emitted, gp, poly, pcall,
                    gfc >>

(* Encoder::<store>::new(ecc_len) with ecc_len other than store - 1 panics *)
NewMismatch(store, ecc_len) ==
    /\ last.op = "none"
    /\ ~new_precondition(store, ecc_len)
    /\ panicked' = TRUE
    /\ last' = [last EXCEPT !.op = "new", !.data = ecc_len, !.ok = FALSE,
                            !.panic = "debug_assert"]
    /\ UNCHANGED << generator, lgenerator, scratch_space, bytes_processed,
                    source, fed, input, emitted, gp, poly, pcall, gfc >>

NextNew ==
    \/ \E gen \in GeneratorArrays : NewWithArray(gen)
    \/ \E store \in 1 .. MaxStore, ecc_len \in 0 .. MaxStore :
          NewMismatch(store, ecc_len)
    \/ \E data \in StreamBytes(StreamPos) :
          /\ last.op # "none"
          /\ StreamPos < MaxShapeFed
          /\ EncodeSingle(data)
    \/ last.op # "none" /\ Finalize

SpecNew == InitNew /\ [][NextNew]_vars

(* ------------------------------------------------------------------ *)
(* Properties of the encoder                                          *)
(* ------------------------------------------------------------------ *)

GenLen == Len(generator)

EccLen == Len(generator) - 1

(* The longest slice encode accepts: data.len() < 256 - generator.len() *)
SingleBlockLimit == U8_MODULUS - 1 - GenLen

(* The data bytes of a full block of 255 symbols *)
BlockData == U8_MODULUS - GenLen

Fresh(self) == self = new_with_precomputed_generator(self.generator)

Returned(op) == last.op = op /\ last.ok

GOLDEN_ECC_8 == <<99, 26, 219, 193, 9, 94, 186, 143>>

GOLDEN_ECC_10 == <<44, 157, 28, 43, 61, 248, 104, 250, 152, 77>>

(* C1: after a non-empty byte sequence that fits in one block was fed byte
   by byte to a fresh encoder, finalize returns the ECC bytes the batch
   algorithm computes for the same bytes. *)
C1_StreamingEqualsBatch ==
    ( /\ Returned("finalize")
      /\ Len(last.fed) >= 1
      /\ Len(last.fed) <= SingleBlockLimit )
    => last.out = BatchEncode(generator, last.fed)

(* C1 witness: a message that went through the steady phase, as long as one
   block allows, was finalized to a non-zero remainder. *)
C1_Witness ==
    /\ Returned("finalize")
    /\ GenLen = 9
    /\ Len(last.fed) = SingleBlockLimit
    /\ \E k \in 1 .. Len(last.out) : last.out[k] # 0

(* C2: encode(data) on a fresh encoder, for non-empty data within the
   single-block limit, returns the remainder of the long division of data
   extended by ecc_len zeros by the generator; data 0..29 with ecc_len 8
   gives the golden vector. *)
C2_EncodeIsDivisionRemainder ==
    ( /\ Returned("encode")
      /\ Fresh(last.pre)
      /\ Len(last.bytes) >= 1
      /\ Len(last.bytes) <= SingleBlockLimit )
    => /\ last.out = PolyRemainder(last.bytes \o Zeros(EccLen), generator)
       /\ (EccLen = 8 /\ last.bytes = Counting(30)) => last.out = GOLDEN_ECC_8

(* C2 witness: the golden vector of tests::encode was computed. *)
C2_Witness ==
    /\ Returned("encode")
    /\ Fresh(last.pre)
    /\ EccLen = 8
    /\ last.bytes = Counting(30)
    /\ last.out = GOLDEN_ECC_8

(* The output of a stream split into blocks of 255 symbols: each full block
   of data is followed by its batch ECC, and so is the last partial block
   once the stream was finalized. *)
RECURSIVE SplitBlocks(_, _, _)
SplitBlocks(gen, data, closed) ==
    LET block == U8_MODULUS - Len(gen)
    IN  IF Len(data) >= block
        THEN SubSeq(data, 1, block)
             \o BatchEncode(gen, SubSeq(data, 1, block))
             \o SplitBlocks(gen, SubSeq(data, block + 1, Len(data)), closed)
        ELSE IF closed /\ Len(data) > 0
        THEN data \o BatchEncode(gen, data)
        ELSE data

(* C3: a stream longer than one block, fed byte by byte and finalized,
   returns in all the data split into blocks of 255 symbols, each block's
   data followed by its batch ECC. *)
C3_StreamSplitsIntoBlocks ==
    (last.op = "finalize" /\ Len(input) > BlockData)
    => emitted = SplitBlocks(generator, input, TRUE)

(* The same for the encoders whose generator is shorter than 128: there the
   split holds at every point of every stream. *)
NarrowStreamSplitsIntoBlocks ==
    (source = "counting" /\ last.op \in {"encode_single", "finalize"}
        /\ last.ok /\ (last.finalized \/ last.op = "finalize"))
    => emitted = SplitBlocks(generator, input, last.op = "finalize")

(* The bytes accepted since the last reset, this call's included *)
Count == Len(last.fed) + 1

(* C4 as claimed: encode_single finalizes implicitly exactly when the number
   of bytes processed since the last reset reaches 255 - generator.len(). *)
C4_FinalizesAt255MinusGenLen ==
    Returned("encode_single")
    => (last.finalized <=> Count = U8_MODULUS - 1 - GenLen)

(* C4 amended: encode_single finalizes implicitly exactly when the number of
   bytes processed since the last reset reaches 256 - generator.len(), for a
   generator of at most 127 bytes; for a longer one, whose limit is passed
   unchecked while the scratch buffer fills, exactly when it reaches
   512 - generator.len(), the counter having wrapped. *)
C4_FinalizesAt256MinusGenLen ==
    Returned("encode_single")
    => (last.finalized <=>
            Count = (IF 2 * GenLen < U8_MODULUS
                     THEN U8_MODULUS - GenLen
                     ELSE 2 * U8_MODULUS - GenLen))

(* C4 witness: the call of the 253rd byte finalized an encoder whose
   generator has 3 coefficients. *)
C4_Witness ==
    /\ Returned("encode_single")
    /\ last.finalized
    /\ GenLen = 3
    /\ Count = 253

(* C5: finalize on a message shorter than the generator (the scratch buffer
   holds just the bytes fed) returns ecc_len bytes, the remainder of the
   division of that message; data 0..4 with ecc_len 10 gives the golden
   vector, through finalize and through encode. *)
C5_ShortMessageRemainder ==
    /\ ( /\ Returned("finalize")
         /\ Len(last.pre.scratch_space) < GenLen )
       => /\ last.pre.scratch_space = last.fed
          /\ Len(last.out) = EccLen
          /\ last.out = PolyRemainder(last.fed \o Zeros(EccLen), generator)
          /\ (EccLen = 10 /\ last.fed = Counting(5))
                => last.out = GOLDEN_ECC_10
    /\ ( /\ Returned("encode")
         /\ Fresh(last.pre)
         /\ EccLen = 10
         /\ last.bytes = Counting(5) )
       => last.out = GOLDEN_ECC_10

(* C5 witness: the golden vector of tests::encode_shorter_than_ecc_message
   was computed by finalize. *)
C5_Witness ==
    /\ Returned("finalize")
    /\ EccLen = 10
    /\ last.fed = Counting(5)
    /\ Len(last.pre.scratch_space) = 5
    /\ last.out = GOLDEN_ECC_10

(* C6: finalize returns Err exactly when the scratch buffer holds no bytes,
   and then leaves the encoder unchanged. *)
C6_EmptyFinalizeIsError ==
    last.op = "finalize"
    => /\ last.ok <=> Len(last.pre.scratch_space) > 0
       /\ ~last.ok => (Self = last.pre /\ last.out = << >>)

(* C6 witness: finalize returned Err right after an implicit finalization
   at the block limit. *)
C6_Witness ==
    /\ last.op = "finalize"
    /\ ~last.ok
    /\ Len(input) = BlockData
    /\ Len(emitted) = U8_MODULUS - 1

(* C7: after reset, after a finalize that returned Ok and after an implicit
   finalization, the encoder is in the state of a new encoder with the same
   generator. *)
C7_ResetGivesNewEncoder ==
    ( \/ last.op = "reset"
      \/ Returned("finalize")
      \/ Returned("encode_single") /\ last.finalized )
    => Self = new_with_precomputed_generator(generator)

(* C7 witness: reset was called on an encoder in its steady phase. *)
C7_Witness ==
    /\ last.op = "reset"
    /\ Len(last.pre.scratch_space) = GenLen
    /\ last.pre.bytes_processed > GenLen
    /\ bytes_processed = 0

(* C8: every encode_single(b) that returns, returns b first: [b] alone in
   the filling and steady phases, b followed by exactly ecc_len ECC bytes
   (the batch ECC of the bytes accepted since the last reset) when it
   finalizes implicitly. *)
C8_EchoesInputByte ==
    Returned("encode_single")
    => /\ Len(last.out) >= 1
       /\ last.out[1] = last.data
       /\ ~last.finalized => last.out = <<last.data>>
       /\ last.finalized
            => /\ Len(last.out) = 1 + EccLen
               /\ SubSeq(last.out, 2, Len(last.out))
                    = BatchEncode(generator, Append(last.fed, last.data))

(* C8 witness: a call returned its byte followed by 8 ECC bytes. *)
C8_Witness ==
    /\ Returned("encode_single")
    /\ last.finalized
    /\ EccLen = 8
    /\ last.data = 246
    /\ Len(last.out) = 9

(* The array is the generator polynomial of its ECC length *)
WellFormed(gen) == gen = generator_poly(Len(gen) - 1)

(* C15: constructing an encoder from a precomputed generator of the wrong
   shape yields an error value the caller can recover from: the call does
   not panic and no encoder is built. *)
C15_MalformedGeneratorIsError ==
    (last.op = "new_with_precomputed_generator" /\ ~WellFormed(last.bytes))
    => /\ ~last.ok
       /\ ~panicked
       /\ Self = NoEncoder

(* C16: encode(data) with data.len() >= 256 - generator.len() aborts at its
   entry check and never returns a result. *)
C16_EncodeAbortsPastLimit ==
    (last.op = "encode" /\ ~encode_precondition(last.pre, last.bytes))
    => ~last.ok

(* C20: in an encoding round with leading scratch byte c, the value XORed
   into scratch position j is mul(c, generator[j]) for every j from 1 up to
   the generator length, for every array an encoder can be built with; for
   c = 0 that is no change.  The round observed is the one of a steady
   encode_single, whose rotation moves position j to j - 1. *)
C20_RoundXorsProducts ==
    ( /\ Returned("encode_single")
      /\ ~last.finalized
      /\ Len(last.pre.scratch_space) = GenLen )
    => \A j \in 2 .. GenLen :
          add(scratch_space[j - 1], last.pre.scratch_space[j])
            = mul(last.pre.scratch_space[1], generator[j])

(* What encode(data) returns on an encoder just built with the same
   generator *)
EncodeOnNew(gen, data) == encode(new_with_precomputed_generator(gen), data).out

(* C21: encode(data) depends on the generator and data only: on an encoder
   in any reachable state, bytes of earlier encode_single calls not yet
   finalized or reset included, it returns the bytes it returns on a freshly
   constructed encoder. *)
C21_EncodeIgnoresEarlierBytes ==
    (Returned("encode") /\ encode_precondition(last.pre, last.bytes))
    => last.out = EncodeOnNew(generator, last.bytes)

(* encode on an encoder whose scratch buffer is empty (new, or after
   finalize, reset or encode) returns what a new encoder returns *)
EncodeOnEmptyScratchIsEncodeOnNew ==
    ( /\ Returned("encode")
      /\ encode_precondition(last.pre, last.bytes)
      /\ last.pre.scratch_space = << >> )
    => last.out = EncodeOnNew(generator, last.bytes)

(* C22: encode(data) returns exactly ecc_len bytes for every data of length
   0 up to the single-block limit, the empty slice included. *)
C22_EncodeReturnsEccLenBytes ==
    (Returned("encode") /\ Len(last.bytes) <= SingleBlockLimit)
    => Len(last.out) = EccLen

(* encode of a non-empty slice within the limit, on an encoder whose scratch
   buffer is empty, returns ecc_len bytes *)
NonEmptyEncodeReturnsEccLenBytes ==
    ( /\ Returned("encode")
      /\ last.pre.scratch_space = << >>
      /\ Len(last.bytes) >= 1
      /\ Len(last.bytes) <= SingleBlockLimit )
    => Len(last.out) = EccLen

(* The lengths of scratch_space at the calls of run_encoding_round made
   by the last call on the encoder; none by an encode that panicked on its
   debug_assert *)
RoundLens ==
    CASE last.op = "encode_single" /\ last.ok ->
            encode_single_round_lens(last.pre, last.data)
      [] last.op = "encode_single" /\ ~last.ok ->
            encode_single_panic_round_lens(last.pre, last.data)
      [] last.op = "finalize" -> finalize_round_lens(last.pre)
      [] last.op = "encode" /\ last.ok ->
            encode_round_lens(last.pre, last.bytes)
      [] last.op = "encode" /\ last.panic = "overflow" ->
            encode_panic_round_lens(last.pre, last.bytes)
      [] OTHER -> {}

(* C23: with a generator of G >= 1 coefficients, after any sequence of
   encode_single, finalize, reset and encode calls the scratch buffer holds
   at most G bytes, every run_encoding_round ran on exactly G bytes (its
   unchecked reads of scratch 0..G and lgenerator 1..G are in bounds), and
   the vector returned, data byte inserted before the ECC, fits the
   capacity G. *)
C23_UncheckedAccessInBounds ==
    GenLen >= 1
    => /\ Len(scratch_space) <= GenLen
       /\ Len(lgenerator) = GenLen
       /\ RoundLens \subseteq {GenLen}
       /\ Len(last.out) <= GenLen

(* C23 witness: finalize on one byte in a buffer of capacity 9 resized it
   and ran its round on 9 bytes. *)
C23_Witness ==
    /\ Returned("finalize")
    /\ GenLen = 9
    /\ Len(last.pre.scratch_space) = 1
    /\ RoundLens = {9}
    /\ Len(last.out) = 8

(* bytes_processed counts the bytes accepted since the last reset, stays
   below the block's data length and tells the scratch length *)
CounterInStep ==
    /\ bytes_processed < U8_MODULUS - GenLen
    /\ bytes_processed = Len(fed)
    /\ Len(scratch_space) = Min(bytes_processed, GenLen)

(* C24: for every generator length from 1 to 255 and every sequence of
   encode_single calls, no increment of the 8-bit bytes_processed
   overflows, and between calls the counter is below 256 - generator.len(),
   equals the number of bytes fed since the last reset, and the scratch
   length is the smaller of the counter and generator.len(). *)
C24_CounterBelowLimit ==
    /\ last.op = "encode_single"
          => ~encode_single(last.pre, last.data).overflow
    /\ ~panicked => CounterInStep

(* The same for generators of at most 127 coefficients *)
NarrowCounterBelowLimit ==
    GenLen <= 127
    => /\ last.op = "encode_single"
             => ~encode_single(last.pre, last.data).overflow
       /\ ~panicked => CounterInStep

(* lgenerator[i] = LOG[generator[i]] at every index *)
LgeneratorIsLogOfGenerator ==
    /\ Len(lgenerator) = Len(generator)
    /\ \A i \in 1 .. Len(generator) : lgenerator[i] = LOG[generator[i] + 1]

(* C25: no operation after construction (encode, encode_single, finalize,
   reset) changes generator or lgenerator, and in every reachable state
   lgenerator[i] = LOG[generator[i]] for every index i. *)
C25_GeneratorArraysAreFixed ==
    /\ []LgeneratorIsLogOfGenerator
    /\ [][generator' = generator /\ lgenerator' = lgenerator]_vars

(* C25 witness: reset discarded the bytes of an encoder built from
   ENCODE_GEN_4_ECC_BYTES and left the coefficients and their logarithms. *)
C25_Witness ==
    /\ Returned("reset")
    /\ Len(last.pre.scratch_space) >= 1
    /\ scratch_space = << >>
    /\ generator = ENCODE_GEN_4_ECC_BYTES
    /\ lgenerator = <<0, 75, 249, 78, 6>>

(* ------------------------------------------------------------------ *)
(* Properties of the generator                                        *)
(* ------------------------------------------------------------------ *)

(* 2 to the power i in the field, by repeated doubling *)
RECURSIVE AlphaPower(_)
AlphaPower(i) == IF i = 0 THEN 1 ELSE TimesTwo(AlphaPower(i - 1))

(* The product of the polynomial p and the monomial [1, r], highest degree
   first, with the field product computed bit by bit *)
MonomialProduct(p, r) ==
    Stored([ k \in 1 .. (Len(p) + 1) |->
        BitXor(IF k <= Len(p) THEN p[k] ELSE 0,
               IF k >= 2 THEN FieldProduct(p[k - 1], r) ELSE 0, 8) ])

(* [1] times the monomials [1, 2^i] for i in 0..n *)
RECURSIVE RootProduct(_)
RootProduct(n) ==
    IF n = 0 THEN <<1>>
    ELSE AndThen(RootProduct(n - 1),
                 LAMBDA p : MonomialProduct(p, AlphaPower(n - 1)))

GOLDEN_GEN_32 ==
    <<1, 116, 64, 52, 174, 54, 126, 16, 194, 162, 33, 33, 157, 176, 197,
      225, 12, 59, 55, 253, 228, 148, 47, 179, 185, 24, 138, 253, 20, 142,
      55, 172, 88>>

GOLDEN_GEN_64 ==
    <<1, 193, 10, 255, 58, 128, 183, 115, 140, 153, 147, 91, 197, 219, 221,
      220, 142, 28, 120, 21, 164, 147, 6, 204, 40, 230, 182, 14, 121, 48,
      143, 77, 228, 81, 85, 43, 162, 16, 195, 163, 35, 149, 154, 35, 132,
      100, 100, 51, 176, 11, 161, 134, 208, 132, 244, 176, 192, 221, 232,
      171, 125, 155, 228, 242, 245>>

(* C9: what generator_poly(ecc_len) returns has length ecc_len + 1 and
   leading coefficient 1, is the product of [1] and the monomials [1, 2^i]
   for i in 0..ecc_len, and for ecc_len 2, 4, 8, 16, 32 and 64 is the
   reference sequence of tests::generator_poly. *)
C9_GeneratorIsRootProduct ==
    gp.pc = "returned"
    => /\ Len(gp.gen) = gp.ecclen + 1
       /\ gp.gen[1] = 1
       /\ gp.gen = RootProduct(gp.ecclen)
       /\ gp.gen = generator_poly(gp.ecclen)
       /\ gp.ecclen = 2 => gp.gen = <<1, 3, 2>>
       /\ gp.ecclen = 4 => gp.gen = <<1, 15, 54, 120, 64>>
       /\ gp.ecclen = 8 => gp.gen = <<1, 255, 11, 81, 54, 239, 173, 200, 24>>
       /\ gp.ecclen = 16
            => gp.gen = <<1, 59, 13, 104, 189, 68, 209, 30, 8, 163, 65, 41,
                          229, 98, 50, 36, 59>>
       /\ gp.ecclen = 32 => gp.gen = GOLDEN_GEN_32
       /\ gp.ecclen = 64 => gp.gen = GOLDEN_GEN_64

(* C9 witness: generator_poly(64) returned after 64 rounds. *)
C9_Witness ==
    /\ gp.pc = "returned"
    /\ gp.ecclen = 64
    /\ gp.i = 64
    /\ gp.mm = <<1, pow(2, 63)>>
    /\ gp.gen = GOLDEN_GEN_64

(* C10: for k in 2, 4, 8, 16 generator_poly(k) returns the constant
   ENCODE_GEN_k_ECC_BYTES, and the encoder built from the constant by
   new_with_precomputed_generator is in the state of the encoder new(k)
   builds, whichever of the two constructors ran. *)
C10_PrecomputedEqualsGenerated ==
    gp.ecclen \in PrecomputedLens
    => /\ gp.pc = "returned" => gp.gen = Precomputed(gp.ecclen)
       /\ gp.pc = "new"
            => Self = new_with_precomputed_generator(Precomputed(gp.ecclen))
       /\ gp.pc = "precomputed"
            => /\ Self = new(gp.ecclen)
               /\ Self = new_with_precomputed_generator(gp.gen)

(* C10 witness: an encoder was built from ENCODE_GEN_16_ECC_BYTES. *)
C10_Witness ==
    /\ gp.pc = "precomputed"
    /\ gp.ecclen = 16
    /\ generator = ENCODE_GEN_16_ECC_BYTES
    /\ Len(lgenerator) = 17
    /\ scratch_space = << >>

(* ------------------------------------------------------------------ *)
(* Properties of the field primitives                                 *)
(* ------------------------------------------------------------------ *)

(* The answers of tests::mul, tests::div and tests::pow: entry i is the
   result for the arguments LOG[i] and EXP[i] *)
MUL_ANSWERS ==
    <<0, 0, 4, 200, 32, 14, 206, 179, 39, 134, 169, 160, 32, 59, 184, 50,
      45, 121, 69, 43, 102, 43, 139, 169, 18, 94, 107, 84, 18, 157, 159, 51,
      211, 1, 52, 13, 51, 128, 31, 219, 240, 230, 212, 219, 197, 19, 11, 135,
      93, 163, 237, 53, 91, 177, 135, 124, 240, 224, 6, 158, 167, 155, 155, 38,
      223, 144, 70, 54, 50, 45, 134, 170, 126, 223, 103, 207, 253, 176, 75, 98,
      137, 87, 59, 50, 208, 116, 29, 200, 128, 82, 13, 138, 107, 53, 42, 34,
      123, 203, 65, 174, 111, 101, 19, 78, 165, 62, 115, 108, 175, 139, 126, 107,
      55, 196, 30, 209, 126, 8, 15, 211, 57, 191, 37, 254, 24, 136, 30, 111,
      188, 30, 209, 208, 49, 132, 181, 22, 207, 241, 28, 2, 97, 58, 244, 179,
      190, 120, 249, 174, 99, 6, 215, 232, 173, 1, 20, 216, 224, 191, 247, 78,
      223, 101, 153, 1, 182, 203, 213, 75, 132, 98, 53, 204, 13, 177, 22, 88,
      218, 21, 32, 68, 247, 153, 11, 190, 47, 128, 214, 33, 110, 194, 102, 77,
      5, 178, 74, 65, 134, 62, 91, 190, 133, 15, 134, 94, 37, 247, 205, 51,
      224, 152, 15, 13, 13, 233, 189, 206, 100, 131, 222, 5, 70, 182, 231, 176,
      167, 150, 156, 249, 29, 189, 96, 149, 239, 162, 43, 239, 89, 8, 9, 57,
      118, 227, 168, 243, 164, 188, 125, 8, 8, 240, 36, 45, 21, 20, 44, 175>>

DIV_ANSWERS ==
    <<0, 0, 71, 174, 173, 87, 134, 213, 152, 231, 124, 39, 203, 113, 13, 198,
      88, 171, 55, 150, 177, 227, 25, 225, 227, 180, 157, 225, 252, 122, 88, 161,
      45, 87, 148, 78, 40, 165, 74, 134, 142, 120, 121, 163, 156, 75, 154, 241,
      239, 27, 152, 130, 125, 235, 230, 32, 138, 225, 145, 90, 214, 226, 182, 168,
      155, 175, 179, 124, 105, 169, 249, 58, 201, 14, 155, 217, 196, 254, 201, 143,
      229, 12, 178, 24, 100, 226, 163, 234, 177, 36, 75, 106, 114, 208, 162, 63,
      235, 181, 108, 131, 248, 51, 190, 187, 235, 115, 112, 37, 79, 90, 112, 237,
      195, 121, 136, 110, 174, 143, 113, 134, 229, 255, 35, 175, 156, 208, 240, 222,
      94, 202, 228, 34, 123, 23, 48, 18, 122, 114, 75, 243, 212, 139, 56, 132,
      157, 119, 219, 170, 236, 11, 51, 86, 224, 221, 142, 200, 154, 136, 179, 72,
      3, 32, 142, 149, 180, 209, 253, 17, 210, 134, 162, 106, 38, 108, 154, 154,
      74, 181, 115, 142, 204, 195, 23, 162, 178, 41, 9, 90, 190, 14, 2, 45,
      227, 253, 115, 93, 155, 244, 83, 219, 11, 196, 167, 241, 33, 60, 103, 69,
      181, 189, 145, 130, 174, 137, 65, 65, 45, 153, 79, 236, 199, 209, 41, 10,
      205, 44, 182, 38, 222, 209, 253, 247, 64, 71, 32, 1, 27, 53, 4, 110,
      170, 221, 215, 4, 179, 163, 64, 90, 152, 163, 235, 6, 41, 93, 176, 175>>

POW_ANSWERS ==
    <<1, 1, 1, 19, 76, 254, 223, 211, 239, 59, 172, 29, 226, 145, 112, 123,
      73, 185, 89, 185, 89, 134, 15, 101, 106, 169, 182, 237, 62, 168, 64, 7,
      28, 125, 64, 80, 243, 15, 169, 241, 80, 11, 137, 79, 220, 158, 196, 214,
      5, 38, 253, 169, 156, 193, 156, 145, 134, 102, 89, 185, 5, 245, 44, 219,
      255, 150, 53, 199, 146, 146, 227, 108, 230, 147, 127, 38, 59, 89, 169, 44,
      205, 242, 31, 68, 45, 38, 86, 202, 231, 38, 222, 165, 74, 237, 47, 231,
      123, 17, 206, 162, 68, 78, 79, 10, 101, 251, 83, 211, 128, 138, 64, 70,
      139, 46, 50, 113, 146, 205, 31, 179, 69, 27, 13, 233, 53, 146, 1, 10,
      47, 93, 170, 75, 163, 71, 225, 203, 180, 203, 64, 101, 219, 39, 102, 186,
      125, 200, 152, 243, 89, 61, 215, 215, 230, 68, 10, 251, 64, 193, 12, 230,
      172, 19, 170, 196, 138, 226, 7, 139, 107, 123, 132, 48, 10, 45, 103, 1,
      228, 117, 173, 223, 85, 202, 109, 60, 167, 114, 103, 55, 150, 217, 107, 94,
      114, 100, 160, 103, 235, 12, 201, 198, 143, 107, 50, 119, 68, 241, 43, 183,
      26, 64, 36, 240, 130, 113, 59, 218, 44, 185, 219, 2, 216, 182, 219, 179,
      252, 145, 45, 252, 226, 85, 230, 239, 79, 39, 95, 77, 60, 62, 223, 215,
      147, 77, 91, 3, 172, 8, 168, 63, 38, 1, 26, 191, 219, 58, 20, 175>>

TestsAgree ==
    \A i \in 1 .. LOG_SIZE :
        /\ mul(LOG[i], EXP[i]) = MUL_ANSWERS[i]
        /\ div(LOG[i], EXP[i]) = DIV_ANSWERS[i]
        /\ pow(LOG[i], EXP[i]) = POW_ANSWERS[i]

(* C11: for every byte a and every byte b other than 0, mul(div(a, b), b)
   is a. *)
C11_MulUndoesDiv ==
    (gfc.op = "div" /\ gfc.ok /\ gfc.y # 0)
    => mul(gfc.out, gfc.y) = gfc.x

(* C11 witness: a quotient whose logarithm wrapped, log a < log b. *)
C11_Witness ==
    /\ gfc.op = "div" /\ gfc.ok
    /\ gfc.x = 2 /\ gfc.y = 4
    /\ gfc.out = 142
    /\ mul(gfc.out, gfc.y) = 2

(* C12: for every byte x other than 0 and all integers m and n,
   pow(x, m + n) is mul(pow(x, m), pow(x, n)). *)
C12_PowAddsExponents ==
    (gfc.op = "pow" /\ gfc.ok /\ gfc.x # 0)
    => pow(gfc.x, gfc.m + gfc.n) = mul(gfc.out, pow(gfc.x, gfc.n))

(* The same where none of the three products LOG[x] * power leaves the i32
   range. *)
PowAddsExponentsWithoutOverflow ==
    ( /\ gfc.op = "pow" /\ gfc.ok /\ gfc.x # 0
      /\ ~pow_overflows(gfc.x, gfc.m)
      /\ ~pow_overflows(gfc.x, gfc.n)
      /\ ~pow_overflows(gfc.x, gfc.m + gfc.n) )
    => pow(gfc.x, gfc.m + gfc.n) = mul(gfc.out, pow(gfc.x, gfc.n))

(* C14: none of mul, div, pow and inverse reads the entry LOG[0] to compute
   its result: each special-cases a zero operand. *)
C14_ZeroHasNoLogarithm ==
    gfc.op \in {"mul", "div", "pow", "inverse"} => 0 \notin gfc.reads

(* Entry i of EXP is 2 to the power i: entry 0 is 1 and each entry is the
   double of the one before it *)
ExpIsPowersOfTwo ==
    /\ Len(EXP) = EXP_SIZE
    /\ EXP[1] = 1
    /\ \A i \in 1 .. EXP_SIZE - 1 : EXP[i + 1] = TimesTwo(EXP[i])

LogInvertsExp ==
    /\ Len(LOG) = LOG_SIZE
    /\ \A x \in 1 .. LOG_SIZE - 1 : EXP[LOG[x + 1] + 1] = x

(* C17: for all bytes x and y, mul(x, y) is their product in GF(256) modulo
   0x11D: 0 when either is 0 and otherwise EXP[LOG[x] + LOG[y]], where
   EXP[i] is 2 to the power i for every i in 0..512 and EXP[LOG[x]] = x
   for every x other than 0; the answers of tests::mul are reproduced. *)
C17_MulIsFieldProduct ==
    gfc.op = "mul"
    => /\ gfc.out = FieldProduct(gfc.x, gfc.y)
       /\ (gfc.x = 0 \/ gfc.y = 0) => gfc.out = 0
       /\ (gfc.x # 0 /\ gfc.y # 0)
            => gfc.out = EXP[LOG[gfc.x + 1] + LOG[gfc.y + 1] + 1]
       /\ ExpIsPowersOfTwo
       /\ LogInvertsExp
       /\ \A i \in 1 .. LOG_SIZE :
            (gfc.x = LOG[i] /\ gfc.y = EXP[i]) => gfc.out = MUL_ANSWERS[i]

(* C17 witness: a product whose logarithms add up past 254, the second half
   of EXP. *)
C17_Witness ==
    /\ gfc.op = "mul"
    /\ gfc.x = 142 /\ gfc.y = 142
    /\ LOG[gfc.x + 1] + LOG[gfc.y + 1] = 508
    /\ gfc.out = FieldProduct(142, 142)

(* ------------------------------------------------------------------ *)
(* Properties of the Polynom                                          *)
(* ------------------------------------------------------------------ *)

Capacity == Len(poly.array)

(* C13: on a Polynom whose length was ever shrunk by set_length, a
   set_length that grows the length leaves the newly exposed indices
   old_len .. new_len - 1 equal to 0 and the indices below old_len as they
   were, whatever push, writes and set_length came in between. *)
C13_RegrowExposesZeros ==
    ( /\ pcall.op = "set_length" /\ pcall.ok
      /\ pcall.shrunk
      /\ pcall.arg > len(pcall.pre) )
    => /\ len(poly) = pcall.arg
       /\ \A i \in 1 .. Capacity :
            /\ (i > len(pcall.pre) /\ i <= pcall.arg) => poly.array[i] = 0
            /\ i <= len(pcall.pre) => poly.array[i] = pcall.pre.array[i]

(* C13 witness: a regrow exposed two slots, one of which held a stale
   non-zero byte, above a slot that was kept. *)
C13_Witness ==
    /\ pcall.op = "set_length" /\ pcall.ok
    /\ pcall.shrunk
    /\ len(pcall.pre) = 1
    /\ pcall.arg = 3
    /\ pcall.pre.array = <<255, 1, 0>>
    /\ poly.array = <<255, 0, 0>>

(* C18: the logical length of a Polynom is at most its capacity N in every
   state reachable by with_length, push and set_length. *)
C18_LengthWithinCapacity == len(poly) <= Capacity

(* C19: push(x) below capacity raises the length by one, stores x at the
   former length and leaves every other slot as it was; push at capacity
   is fatal and writes nothing. *)
C19_PushAppendsOrPanics ==
    pcall.op = "push"
    => /\ len(pcall.pre) < Capacity
            => /\ pcall.ok
               /\ len(poly) = len(pcall.pre) + 1
               /\ poly.array[len(pcall.pre) + 1] = pcall.arg
               /\ \A i \in 1 .. Capacity :
                    i # len(pcall.pre) + 1
                        => poly.array[i] = pcall.pre.array[i]
               /\ poly.dirty = pcall.pre.dirty
       /\ len(pcall.pre) = Capacity => (~pcall.ok /\ poly = pcall.pre)

(* C19 witness: the push after three pushes that filled Polynom<3> was
   fatal. *)
C19_Witness ==
    /\ pcall.op = "push" /\ ~pcall.ok
    /\ Capacity = 3
    /\ len(poly) = 3
    /\ poly.array = <<1, 255, 1>>
    /\ pcall.arg = 255
====
